---- MODULE Spec2Model ----
(***************************************************************************)
(* GMS-5 VISSR navigation: satpy/readers/gms5_vissr_navigation.py.         *)
(*                                                                         *)
(* Numbers.  A float is modelled by an exact rational <<n, d>> in lowest   *)
(* terms with d > 0; NaN is <<0, 0>>.  Rounding and overflow of the 64-bit *)
(* floats are outside the model.  Exc stands for an exception that is      *)
(* unwinding: every arithmetic operator hands it on, as the statements     *)
(* after a raising one are not executed.  The functions are compiled with  *)
(* @numba.njit and its default error model: a scalar division by zero      *)
(* raises ZeroDivisionError, np.sqrt of a negative number is NaN, and an   *)
(* array divided by a zero scalar is NaN where the element is zero.        *)
(*                                                                         *)
(* Angles are measured in quarter turns, so that np.pi is 2 and the sine   *)
(* and cosine of every angle the bounded inputs produce is an integer.     *)
(* Arrays are sequences, read zero-based through At.                       *)
(*                                                                         *)
(* State.  call is the call in progress: its arguments and, once it has    *)
(* returned, the function that ran; ret is what it returned; blocks holds  *)
(* the chunks of a grid computed so far.  SpecInterp applies the           *)
(* interpolators, SpecPixel the navigation of one pixel, and Spec          *)
(* evaluates get_lons_lats on a chunked grid, block by block in any order. *)
(* SpecCalls runs _get_lons_lats_numba on a row of points that come again, *)
(* SpecConstruct constructs the predictions and the static parameters,     *)
(* and SpecAnySample interpolates on sample times in any order.            *)
(***************************************************************************)
EXTENDS Integers, Sequences, FiniteSets, TLC

VARIABLES call, ret, blocks

vars == <<call, ret, blocks>>

---------------------------------------------------------------------------
(* Float arithmetic *)

NaN == <<0, 0>>
Exc == <<0, -1>>

Abs(n) == IF n < 0 THEN -n ELSE n

RECURSIVE GCD(_, _)
GCD(a, b) == IF b = 0 THEN a ELSE GCD(b, a % b)

\* n / d in lowest terms, given g = gcd(|n|, |d|)
Reduce(n, d, g) ==
  IF d < 0 THEN <<(-n) \div g, (-d) \div g>> ELSE <<n \div g, d \div g>>

Frac(n, d) == Reduce(n, d, GCD(Abs(n), Abs(d)))

Int2F(n) == <<n, 1>>

IsNaN(a) == a = NaN
IsZero(a) == a = <<0, 1>>

FAdd(a, b) ==
  IF a = Exc \/ b = Exc THEN Exc
  ELSE IF IsNaN(a) \/ IsNaN(b) THEN NaN
  ELSE Frac(a[1] * b[2] + b[1] * a[2], a[2] * b[2])

FNeg(a) == IF a = Exc \/ IsNaN(a) THEN a ELSE <<-a[1], a[2]>>

FSub(a, b) == FAdd(a, FNeg(b))

FMul(a, b) ==
  IF a = Exc \/ b = Exc THEN Exc
  ELSE IF IsNaN(a) \/ IsNaN(b) THEN NaN
  ELSE Frac(a[1] * b[1], a[2] * b[2])

\* A scalar division in an njit function: a zero divisor raises.
FDiv(a, b) ==
  IF a = Exc \/ b = Exc THEN Exc
  ELSE IF IsZero(b) THEN Exc
  ELSE IF IsNaN(a) \/ IsNaN(b) THEN NaN
  ELSE Frac(a[1] * b[2], a[2] * b[1])

\* Comparisons: any comparison with NaN is false.
FLt(a, b) == ~IsNaN(a) /\ ~IsNaN(b) /\ a[1] * b[2] < b[1] * a[2]
FLe(a, b) == ~IsNaN(a) /\ ~IsNaN(b) /\ a[1] * b[2] <= b[1] * a[2]

\* np.floor
FFloor(a) ==
  IF a = Exc \/ IsNaN(a) THEN a ELSE Int2F(a[1] \div a[2])

\* a % b on floats, b # 0: the remainder has the sign of b.
FMod(a, b) ==
  IF a = Exc \/ b = Exc THEN Exc
  ELSE IF IsZero(b) THEN Exc
  ELSE IF IsNaN(a) \/ IsNaN(b) THEN NaN
  ELSE FSub(a, FMul(b, FFloor(FDiv(a, b))))

\* np.pi, in quarter turns
Pi == <<2, 1>>

\* Zero-based indexing of an array
At(a, i) == a[i + 1]

---------------------------------------------------------------------------
(* Interpolators *)

\* _find_enclosing_index raises Exception("x not enclosed by x_sample")
Raised == -1

RECURSIVE _find_enclosing_index_from(_, _, _)
_find_enclosing_index_from(i, x, x_sample) ==
  IF i >= Len(x_sample) - 1 THEN Raised
  ELSE IF FLe(At(x_sample, i), x) /\ FLt(x, At(x_sample, i + 1)) THEN i
  ELSE _find_enclosing_index_from(i + 1, x, x_sample)

\* Mutant: the interval test closed on the right (x <= x_sample[i + 1]).
RECURSIVE _find_enclosing_index_closed_from(_, _, _)
_find_enclosing_index_closed_from(i, x, x_sample) ==
  IF i >= Len(x_sample) - 1 THEN Raised
  ELSE IF FLe(At(x_sample, i), x) /\ FLe(x, At(x_sample, i + 1)) THEN i
  ELSE _find_enclosing_index_closed_from(i + 1, x, x_sample)

_find_enclosing_index_closed(x, x_sample) ==
  _find_enclosing_index_closed_from(0, x, x_sample)

_find_enclosing_index(x, x_sample) == _find_enclosing_index_from(0, x, x_sample)

\* Mutant: the distance taken from the right end of the interval.
_interpolate_at_from_right(i, x, x_sample, y_sample) ==
  IF i = Raised THEN Exc
  ELSE LET offset == At(y_sample, i)
           x_diff == FSub(At(x_sample, i + 1), At(x_sample, i))
           y_diff == FSub(At(y_sample, i + 1), At(y_sample, i))
           slope  == FDiv(y_diff, x_diff)
           dist   == FSub(x, At(x_sample, i + 1))
       IN  FAdd(offset, FMul(slope, dist))

\* The body of _interpolate once the search has returned i or raised.
_interpolate_at(i, x, x_sample, y_sample) ==
  IF i = Raised THEN Exc
  ELSE LET offset == At(y_sample, i)
           x_diff == FSub(At(x_sample, i + 1), At(x_sample, i))
           y_diff == FSub(At(y_sample, i + 1), At(y_sample, i))
           slope  == FDiv(y_diff, x_diff)
           dist   == FSub(x, At(x_sample, i))
       IN  FAdd(offset, FMul(slope, dist))

_interpolate(x, x_sample, y_sample) ==
  _interpolate_at(_find_enclosing_index(x, x_sample), x, x_sample, y_sample)

\* Mutant: no try/except around _interpolate.
interpolate_continuous_uncaught(x, x_sample, y_sample) ==
  _interpolate(x, x_sample, y_sample)

\* except Exception: return np.nan
_except_nan(r) == IF r = Exc THEN NaN ELSE r

interpolate_continuous(x, x_sample, y_sample) ==
  _except_nan(_interpolate(x, x_sample, y_sample))

\* Mutant: the remainder taken without the shift by pi.
_wrap_2pi_unshifted(values) ==
  FSub(FMod(values, FMul(Int2F(2), Pi)), Pi)

_wrap_2pi(values) ==
  FSub(FMod(FAdd(values, Pi), FMul(Int2F(2), Pi)), Pi)

interpolate_angles(x, x_sample, y_sample) ==
  _wrap_2pi(interpolate_continuous(x, x_sample, y_sample))

\* An array-valued function that raises returns the empty array here.
ExcArray == <<>>

\* The body of _interpolate_nearest once the search has returned i or raised.
_interpolate_nearest_at(i, y_sample) ==
  IF i = Raised THEN ExcArray ELSE At(y_sample, i)

_interpolate_nearest_closest_at(i, x, x_sample, y_sample) ==
  IF i = Raised THEN ExcArray
  ELSE IF FLt(FSub(At(x_sample, i + 1), x), FSub(x, At(x_sample, i)))
       THEN At(y_sample, i + 1)
       ELSE At(y_sample, i)

\* Mutant: the sample nearest in time, left or right.
_interpolate_nearest_closest(x, x_sample, y_sample) ==
  _interpolate_nearest_closest_at(_find_enclosing_index(x, x_sample), x,
                                  x_sample, y_sample)

_interpolate_nearest(x, x_sample, y_sample) ==
  _interpolate_nearest_at(_find_enclosing_index(x, x_sample), y_sample)

\* np.nan * np.ones_like(a) for a two-dimensional array a
nan_ones_like(a) ==
  [r \in DOMAIN a |-> [c \in DOMAIN a[r] |-> FMul(NaN, Int2F(1))]]

\* except Exception: return np.nan * np.ones_like(y_sample[0])
_except_nan_like(r, y_sample) ==
  IF Len(r) = 0 THEN nan_ones_like(At(y_sample, 0)) ELSE r

interpolate_nearest(x, x_sample, y_sample) ==
  _except_nan_like(_interpolate_nearest(x, x_sample, y_sample), y_sample)

---------------------------------------------------------------------------
(* Functions of numpy.  The square root, the sine and cosine and the arc   *)
(* tangent are exact on the values the bounded inputs produce: squares of  *)
(* rationals, whole quarter turns, and directions that are multiples of    *)
(* an eighth of a turn.  Outside those values they are not defined, and a  *)
(* check that reached one would stop with an error.                        *)

RECURSIVE ISqrtFrom(_, _)
ISqrtFrom(n, r) == IF (r + 1) * (r + 1) > n THEN r ELSE ISqrtFrom(n, r + 1)

\* The integer square root of a perfect square.
ISqrt(n) == CHOOSE s \in {ISqrtFrom(n, 0)} : s * s = n

\* np.sqrt: NaN for a negative number
FSqrt(a) ==
  IF a = Exc \/ IsNaN(a) THEN a
  ELSE IF a[1] < 0 THEN NaN
  ELSE <<ISqrt(a[1]), ISqrt(a[2])>>

\* np.cos and np.sin of a whole number of quarter turns
FCos(a) ==
  IF a = Exc \/ IsNaN(a) THEN a
  ELSE CASE a[2] = 1 /\ a[1] % 4 = 0 -> Int2F(1)
         [] a[2] = 1 /\ a[1] % 4 = 1 -> Int2F(0)
         [] a[2] = 1 /\ a[1] % 4 = 2 -> Int2F(-1)
         [] a[2] = 1 /\ a[1] % 4 = 3 -> Int2F(0)

FSin(a) == FCos(FSub(a, Int2F(1)))

\* np.arctan2(y, x), in quarter turns; signed zeros are outside the model.
FArctan2(y, x) ==
  IF y = Exc \/ x = Exc THEN Exc
  ELSE IF IsNaN(y) \/ IsNaN(x) THEN NaN
  ELSE LET py == y[1] * x[2]
           px == x[1] * y[2]
       IN  CASE py = 0 /\ px >= 0 -> Int2F(0)
             [] py = 0 /\ px < 0 -> Int2F(2)
             [] px = 0 /\ py > 0 -> Int2F(1)
             [] px = 0 /\ py < 0 -> Int2F(-1)
             [] px > 0 /\ py = px -> Frac(1, 2)
             [] px > 0 /\ py = -px -> Frac(-1, 2)
             [] px < 0 /\ py = -px -> Frac(3, 2)
             [] px < 0 /\ py = px -> Frac(-3, 2)

\* np.rad2deg
FRad2Deg(a) == FDiv(FMul(a, Int2F(180)), Pi)

\* An array element divided by a scalar: numpy's 0 / 0 is NaN, nothing raises.
ADiv(a, s) ==
  IF a = Exc \/ s = Exc THEN Exc
  ELSE IF IsNaN(a) \/ IsNaN(s) THEN NaN
  ELSE CASE ~IsZero(s) -> FDiv(a, s)
         [] IsZero(s) /\ IsZero(a) -> NaN

\* min(a, b) of Python: b if b < a, else a
FMin(a, b) ==
  IF a = Exc \/ b = Exc THEN Exc ELSE IF FLt(b, a) THEN b ELSE a

\* Vectors (x, y, z) and 3x3 matrices (rows)
Dot(u, v) == FAdd(FAdd(FMul(u[1], v[1]), FMul(u[2], v[2])), FMul(u[3], v[3]))

MatVec(m, v) == <<Dot(m[1], v), Dot(m[2], v), Dot(m[3], v)>>

Cross(u, v) ==
  << FSub(FMul(u[2], v[3]), FMul(u[3], v[2])),
     FSub(FMul(u[3], v[1]), FMul(u[1], v[3])),
     FSub(FMul(u[1], v[2]), FMul(u[2], v[1])) >>

VAdd(u, v) == <<FAdd(u[1], v[1]), FAdd(u[2], v[2]), FAdd(u[3], v[3])>>

VScale(v, c) == <<FMul(v[1], c), FMul(v[2], c), FMul(v[3], c)>>

\* np.stack((x, y, z), axis=-1): the vectors are the columns
StackColumns(x, y, z) ==
  << <<x[1], y[1], z[1]>>, <<x[2], y[2], z[2]>>, <<x[3], y[3], z[3]>> >>

Raises(v) == \E k \in DOMAIN v : v[k] = Exc

---------------------------------------------------------------------------
(* Per-pixel navigation *)

\* Mutant: the line step taken from the one-based line number.
_get_relative_observation_time_one_based(point, scan_params) ==
  LET pixel == point[2] + 1
      line  == point[1] + 1
      spinning_freq == FMul(Int2F(1440), scan_params.spinning_rate)
      line_step == FFloor(FDiv(Int2F(line), Int2F(scan_params.num_sensors)))
      pixel_step == FDiv(FMul(scan_params.sampling_angle, Int2F(pixel)),
                         FMul(Int2F(2), Pi))
  IN  FDiv(FAdd(line_step, pixel_step), spinning_freq)

_get_relative_observation_time(point, scan_params) ==
  LET pixel == point[2] + 1
      line  == point[1] + 1
      spinning_freq == FMul(Int2F(1440), scan_params.spinning_rate)
      line_step == FFloor(FDiv(Int2F(line - 1), Int2F(scan_params.num_sensors)))
      pixel_step == FDiv(FMul(scan_params.sampling_angle, Int2F(pixel)),
                         FMul(Int2F(2), Pi))
  IN  FDiv(FAdd(line_step, pixel_step), spinning_freq)

get_observation_time(point, scan_params) ==
  FAdd(scan_params.start_time_of_scan,
       _get_relative_observation_time(point, scan_params))

_get_image_offset(proj_params) ==
  <<proj_params.line_offset, proj_params.pixel_offset>>

_get_sampling(proj_params) ==
  <<proj_params.stepping_angle, proj_params.sampling_angle>>

_get_spin_angles(attitude) ==
  <<attitude.angle_between_sat_spin_and_z_axis,
    attitude.angle_between_sat_spin_and_yz_plane>>

_get_sat_pos(orbit) ==
  <<orbit.sat_position.x, orbit.sat_position.y, orbit.sat_position.z>>

_get_ellipsoid(proj_params) ==
  <<proj_params.earth_equatorial_radius, proj_params.earth_flattening>>

transform_image_coords_to_scanning_angles(point, offset, sampling) ==
  LET line == point[1]
      pixel == point[2]
      line_offset == offset[1]
      pixel_offset == offset[2]
      stepping_angle == sampling[1]
      sampling_angle == sampling[2]
      x == FMul(sampling_angle, FSub(Int2F(pixel + 1), pixel_offset))
      y == FMul(stepping_angle, FSub(Int2F(line + 1), line_offset))
  IN  <<x, y>>

_get_transforms_from_scanning_angles_to_satellite_coords(angles) ==
  LET x == angles[1]
      y == angles[2]
      cos_x == FCos(x)
      sin_x == FSin(x)
      rot == << <<cos_x, FNeg(sin_x), Int2F(0)>>,
                <<sin_x, cos_x, Int2F(0)>>,
                <<Int2F(0), Int2F(0), Int2F(1)>> >>
      vec == <<FCos(y), Int2F(0), FSin(y)>>
  IN  <<rot, vec>>

transform_scanning_angles_to_satellite_coords(angles, misalignment) ==
  LET t == _get_transforms_from_scanning_angles_to_satellite_coords(angles)
  IN  MatVec(t[1], MatVec(misalignment, t[2]))

\* v / norm
VDiv(v, norm) == <<ADiv(v[1], norm), ADiv(v[2], norm), ADiv(v[3], norm)>>

normalize_vector(v) == VDiv(v, FSqrt(Dot(v, v)))

_get_satellite_z_axis_1950(spin_angles) ==
  LET alpha == spin_angles[1]
      delta == spin_angles[2]
      cos_delta == FCos(delta)
      x == FSin(delta)
      y == FMul(FNeg(cos_delta), FSin(alpha))
      z == FMul(cos_delta, FCos(alpha))
  IN  <<x, y, z>>

_get_transform_from_1950_to_earth_fixed(greenwich_sidereal_time) ==
  LET cos == FCos(greenwich_sidereal_time)
      sin == FSin(greenwich_sidereal_time)
  IN  << <<cos, sin, Int2F(0)>>,
         <<FNeg(sin), cos, Int2F(0)>>,
         <<Int2F(0), Int2F(0), Int2F(1)>> >>

_get_satellite_unit_vector_z(spin_angles, greenwich_sidereal_time, nutation_precession) ==
  LET sat_z_axis_1950 == _get_satellite_z_axis_1950(spin_angles)
      rotation == _get_transform_from_1950_to_earth_fixed(greenwich_sidereal_time)
      z_vec == MatVec(rotation, MatVec(nutation_precession, sat_z_axis_1950))
  IN  normalize_vector(z_vec)

_get_vector_from_satellite_to_sun(orbit_angles) ==
  LET declination == orbit_angles.declination_from_sat_to_sun
      right_ascension == orbit_angles.right_ascension_from_sat_to_sun
      cos_declination == FCos(declination)
      x == FMul(cos_declination, FCos(right_ascension))
      y == FMul(cos_declination, FSin(right_ascension))
      z == FSin(declination)
  IN  <<x, y, z>>

\* x_vec of _get_satellite_unit_vector_x, given the normalized z_cross_satsun
_x_vec(z_cross_satsun, beta, sat_unit_vector_z) ==
  VAdd(VScale(z_cross_satsun, FSin(beta)),
       VScale(Cross(z_cross_satsun, sat_unit_vector_z), FCos(beta)))

_get_satellite_unit_vector_x(earth_sun_angle, orbit_angles, sat_unit_vector_z) ==
  LET beta == earth_sun_angle
      sat_sun_vector == _get_vector_from_satellite_to_sun(orbit_angles)
      z_cross_satsun == normalize_vector(Cross(sat_unit_vector_z, sat_sun_vector))
  IN  normalize_vector(_x_vec(z_cross_satsun, beta, sat_unit_vector_z))

_get_satellite_unit_vector_y(sat_unit_vector_x, sat_unit_vector_z) ==
  normalize_vector(Cross(sat_unit_vector_z, sat_unit_vector_x))

\* _get_satellite_unit_vectors from unit_vector_z and unit_vector_x on
_stack_unit_vectors(unit_vector_x, unit_vector_z) ==
  StackColumns(unit_vector_x,
               _get_satellite_unit_vector_y(unit_vector_x, unit_vector_z),
               unit_vector_z)

\* _get_satellite_unit_vectors from unit_vector_z on
_unit_vectors_from_z(unit_vector_z, orbit, earth_sun_angle) ==
  _stack_unit_vectors(
    _get_satellite_unit_vector_x(earth_sun_angle, orbit.angles, unit_vector_z),
    unit_vector_z)

_get_satellite_unit_vectors(orbit, earth_sun_angle, spin_angles) ==
  _unit_vectors_from_z(
    _get_satellite_unit_vector_z(spin_angles,
                                 orbit.angles.greenwich_sidereal_time,
                                 orbit.nutation_precession),
    orbit, earth_sun_angle)

transform_satellite_to_earth_fixed_coords(point, orbit, earth_sun_angle, spin_angles) ==
  MatVec(_get_satellite_unit_vectors(orbit, earth_sun_angle, spin_angles), point)

\* (1 - flattening) ** 2
_flat2(one_minus_f) == FMul(one_minus_f, one_minus_f)

\* The coefficients a, b, c of a t^2 + 2 b t + c = 0
_quadratic_coefficients(flat2, view_vector, sat_pos, equatorial_radius) ==
  LET ux == view_vector[1]
      uy == view_vector[2]
      uz == view_vector[3]
      x == sat_pos[1]
      y == sat_pos[2]
      z == sat_pos[3]
      a == FAdd(FMul(flat2, FAdd(FMul(ux, ux), FMul(uy, uy))), FMul(uz, uz))
      b == FAdd(FMul(flat2, FAdd(FMul(x, ux), FMul(y, uy))), FMul(z, uz))
      c == FAdd(FMul(flat2, FSub(FAdd(FMul(x, x), FMul(y, y)),
                                 FMul(equatorial_radius, equatorial_radius))),
                FMul(z, z))
  IN  [a |-> a, b |-> b, c |-> c]

_ellipsoid_quadratic(view_vector, sat_pos, ellipsoid) ==
  _quadratic_coefficients(_flat2(FSub(Int2F(1), ellipsoid[2])), view_vector,
                          sat_pos, ellipsoid[1])

\* b ** 2 - a * c
_discriminant(q) == FSub(FMul(q.b, q.b), FMul(q.a, q.c))

\* dist_1 and dist_2, given tmp = np.sqrt(b ** 2 - a * c)
_distances(q, tmp) ==
  <<FDiv(FAdd(FNeg(q.b), tmp), q.a), FDiv(FSub(FNeg(q.b), tmp), q.a)>>

\* Mutant: np.sqrt raising on a negative number, as math.sqrt does.
_distances_of_quadratic_domain_error(q) ==
  IF FLt(_discriminant(q), Int2F(0)) THEN <<Exc, Exc>>
  ELSE _distances(q, FSqrt(_discriminant(q)))

_distances_of_quadratic(q) == _distances(q, FSqrt(_discriminant(q)))

_get_distances_to_intersections(view_vector, sat_pos, ellipsoid) ==
  _distances_of_quadratic(_ellipsoid_quadratic(view_vector, sat_pos, ellipsoid))

\* Mutant: the larger of the two distances.
_max_distance(d) == FNeg(FMin(FNeg(d[1]), FNeg(d[2])))

\* min(d1, d2)
_min_distance(d) == FMin(d[1], d[2])

_get_distance_to_intersection(view_vector, sat_pos, ellipsoid) ==
  _min_distance(_get_distances_to_intersections(view_vector, sat_pos, ellipsoid))

\* Mutant: the point at the distance behind the satellite.
intersect_with_earth_backwards(view_vector, sat_pos, ellipsoid) ==
  LET distance == _get_distance_to_intersection(view_vector, sat_pos, ellipsoid)
  IN  VAdd(sat_pos, VScale(view_vector, FNeg(distance)))

intersect_with_earth(view_vector, sat_pos, ellipsoid) ==
  LET distance == _get_distance_to_intersection(view_vector, sat_pos, ellipsoid)
  IN  VAdd(sat_pos, VScale(view_vector, distance))

transform_earth_fixed_to_geodetic_coords(point, earth_flattening) ==
  LET x == point[1]
      y == point[2]
      z == point[3]
      f == earth_flattening
      lon == FArctan2(y, x)
      lat == FArctan2(z, FMul(_flat2(FSub(Int2F(1), f)),
                              FSqrt(FAdd(FMul(x, x), FMul(y, y)))))
  IN  <<FRad2Deg(lon), FRad2Deg(lat)>>

get_lon_lat(point, nav_params) ==
  LET attitude == nav_params[1]
      orbit == nav_params[2]
      proj_params == nav_params[3]
      scan_angles == transform_image_coords_to_scanning_angles(
                       point, _get_image_offset(proj_params),
                       _get_sampling(proj_params))
      view_vector_sat == transform_scanning_angles_to_satellite_coords(
                           scan_angles, proj_params.misalignment)
      view_vector_earth_fixed == transform_satellite_to_earth_fixed_coords(
                                   view_vector_sat, orbit,
                                   attitude.angle_between_earth_and_sun,
                                   _get_spin_angles(attitude))
      point_on_earth == intersect_with_earth(
                          view_vector_earth_fixed, _get_sat_pos(orbit),
                          _get_ellipsoid(proj_params))
  IN  transform_earth_fixed_to_geodetic_coords(point_on_earth,
                                               proj_params.earth_flattening)

interpolate_attitude_prediction(attitude_prediction, observation_time) ==
  [angle_between_earth_and_sun |->
     interpolate_angles(observation_time, attitude_prediction.prediction_times,
                        attitude_prediction.angle_between_earth_and_sun),
   angle_between_sat_spin_and_z_axis |->
     interpolate_angles(observation_time, attitude_prediction.prediction_times,
                        attitude_prediction.angle_between_sat_spin_and_z_axis),
   angle_between_sat_spin_and_yz_plane |->
     interpolate_angles(observation_time, attitude_prediction.prediction_times,
                        attitude_prediction.angle_between_sat_spin_and_yz_plane)]

_interpolate_orbit_angles(observation_time, orbit_prediction) ==
  [greenwich_sidereal_time |->
     interpolate_angles(observation_time, orbit_prediction.prediction_times,
                        orbit_prediction.angles.greenwich_sidereal_time),
   declination_from_sat_to_sun |->
     interpolate_angles(observation_time, orbit_prediction.prediction_times,
                        orbit_prediction.angles.declination_from_sat_to_sun),
   right_ascension_from_sat_to_sun |->
     interpolate_angles(observation_time, orbit_prediction.prediction_times,
                        orbit_prediction.angles.right_ascension_from_sat_to_sun)]

_interpolate_sat_position(observation_time, orbit_prediction) ==
  [x |-> interpolate_continuous(observation_time,
                                orbit_prediction.prediction_times,
                                orbit_prediction.sat_position.x),
   y |-> interpolate_continuous(observation_time,
                                orbit_prediction.prediction_times,
                                orbit_prediction.sat_position.y),
   z |-> interpolate_continuous(observation_time,
                                orbit_prediction.prediction_times,
                                orbit_prediction.sat_position.z)]

interpolate_orbit_prediction(orbit_prediction, observation_time) ==
  [angles |-> _interpolate_orbit_angles(observation_time, orbit_prediction),
   sat_position |-> _interpolate_sat_position(observation_time, orbit_prediction),
   nutation_precession |->
     interpolate_nearest(observation_time, orbit_prediction.prediction_times,
                         orbit_prediction.nutation_precession)]

interpolate_navigation_prediction(attitude_prediction, orbit_prediction, observation_time) ==
  <<interpolate_attitude_prediction(attitude_prediction, observation_time),
    interpolate_orbit_prediction(orbit_prediction, observation_time)>>

\* (attitude, orbit, proj_params), or the empty tuple when the observation
\* time raises.
_navigation_parameters_at(obs_time, proj_params, attitude_prediction, orbit_prediction) ==
  IF obs_time = Exc THEN <<>>
  ELSE interpolate_navigation_prediction(attitude_prediction, orbit_prediction,
                                         obs_time) \o <<proj_params>>

_get_navigation_parameters(point, static_params, predicted_params) ==
  LET scan_params == static_params[1]
      proj_params == static_params[2]
      attitude_prediction == predicted_params[1]
      orbit_prediction == predicted_params[2]
  IN  _navigation_parameters_at(get_observation_time(point, scan_params),
                                proj_params, attitude_prediction,
                                orbit_prediction)

---------------------------------------------------------------------------
(* Grid evaluation *)

\* Stored into a float32 array: rounded to 24 significant bits, ties to even.
RECURSIVE Float32Scale(_, _, _)
Float32Scale(n, d, e) ==
  IF n >= 16777216 * d THEN Float32Scale(n, 2 * d, e + 1)
  ELSE IF n < 8388608 * d THEN Float32Scale(2 * n, d, e - 1)
  ELSE <<n, d, e>>

RECURSIVE Pow2(_)
Pow2(e) == IF e = 0 THEN 1 ELSE 2 * Pow2(e - 1)

\* n / d rounded to an integer, ties to even
RoundHalfEven(n, d) ==
  IF 2 * (n % d) > d \/ (2 * (n % d) = d /\ (n \div d) % 2 = 1)
    THEN (n \div d) + 1
    ELSE n \div d

\* sign * m * 2 ** e
Float32Value(sign, m, e) ==
  IF e >= 0 THEN Frac(sign * m * Pow2(e), 1) ELSE Frac(sign * m, Pow2(-e))

Float32Rounded(sign, s) == Float32Value(sign, RoundHalfEven(s[1], s[2]), s[3])

Float32(a) ==
  IF a = Exc \/ IsNaN(a) \/ IsZero(a) THEN a
  ELSE Float32Rounded(IF a[1] < 0 THEN -1 ELSE 1,
                      Float32Scale(Abs(a[1]), a[2], 0))

\* np.zeros(shape)
Zeros(shape) == [i \in 1..shape[1] |-> [j \in 1..shape[2] |-> Int2F(0)]]

Shape(a) == <<Len(a), Len(a[1])>>

\* What a block that raised leaves: no arrays.
RaisedBlock == [raised |-> TRUE, lons |-> <<>>, lats |-> <<>>]

\* (lon, lat) of one point, or the empty tuple when a step raises.
_lon_lat_of(point, nav_params) ==
  IF Len(nav_params) = 0 THEN <<>> ELSE get_lon_lat(point, nav_params)

_navigate(point, static_params, predicted_params) ==
  _lon_lat_of(point,
              _get_navigation_parameters(point, static_params, predicted_params))

\* Mutant: the position in the block taken for the image coordinates.
_point_in_block(lines_2d, pixels_2d, i, j) == <<i, j>>

\* point = (lines_2d[i, j], pixels_2d[i, j])
_point(lines_2d, pixels_2d, i, j) ==
  <<lines_2d[i + 1][j + 1], pixels_2d[i + 1][j + 1]>>

RECURSIVE _get_lons_lats_loop(_, _, _, _, _, _, _, _)

\* Mutant: the stores add what the cell before in the row holds.
_store_and_continue_accumulating(lon_lat, i, j, lons, lats, lines_2d, pixels_2d, static_params, predicted_params) ==
  IF Len(lon_lat) = 0 \/ Raises(lon_lat) THEN RaisedBlock
  ELSE _get_lons_lats_loop(
         i, j + 1,
         [lons EXCEPT ![i + 1][j + 1] =
            Float32(IF j > 0 THEN FAdd(lon_lat[1], lons[i + 1][j])
                    ELSE lon_lat[1])],
         [lats EXCEPT ![i + 1][j + 1] =
            Float32(IF j > 0 THEN FAdd(lon_lat[2], lats[i + 1][j])
                    ELSE lon_lat[2])],
         lines_2d, pixels_2d, static_params, predicted_params)

\* The end of one pass of the loop body: the stores, and the next cell.
_store_and_continue(lon_lat, i, j, lons, lats, lines_2d, pixels_2d, static_params, predicted_params) ==
  IF Len(lon_lat) = 0 \/ Raises(lon_lat) THEN RaisedBlock
  ELSE _get_lons_lats_loop(i, j + 1,
                           [lons EXCEPT ![i + 1][j + 1] = Float32(lon_lat[1])],
                           [lats EXCEPT ![i + 1][j + 1] = Float32(lon_lat[2])],
                           lines_2d, pixels_2d, static_params, predicted_params)

\* The loop of _get_lons_lats_numba from cell (i, j) on, zero-based.
_get_lons_lats_loop(i, j, lons, lats, lines_2d, pixels_2d, static_params, predicted_params) ==
  IF i >= Len(lines_2d) THEN [raised |-> FALSE, lons |-> lons, lats |-> lats]
  ELSE IF j >= Len(lines_2d[1])
    THEN _get_lons_lats_loop(i + 1, 0, lons, lats, lines_2d, pixels_2d,
                             static_params, predicted_params)
  ELSE _store_and_continue(
         _navigate(_point(lines_2d, pixels_2d, i, j), static_params,
                   predicted_params),
         i, j, lons, lats, lines_2d, pixels_2d, static_params, predicted_params)

_get_lons_lats_numba(lines_2d, pixels_2d, static_params, predicted_params) ==
  _get_lons_lats_loop(0, 0, Zeros(Shape(lines_2d)), Zeros(Shape(lines_2d)),
                      lines_2d, pixels_2d, static_params, predicted_params)

\* Mutant: the two arrays handed out in the other order.
Meshgrid_swapped(pixels, lines) ==
  << [i \in 1..Len(lines) |-> [j \in 1..Len(pixels) |-> lines[i]]],
     [i \in 1..Len(lines) |-> [j \in 1..Len(pixels) |-> pixels[j]]] >>

\* da.meshgrid(pixels, lines): (pixels_2d, lines_2d), lines along the rows
Meshgrid(pixels, lines) ==
  << [i \in 1..Len(lines) |-> [j \in 1..Len(pixels) |-> pixels[j]]],
     [i \in 1..Len(lines) |-> [j \in 1..Len(pixels) |-> lines[i]]] >>

---------------------------------------------------------------------------
(* The interpolators applied to bounded inputs *)

MaxLen == 4
MaxTime == 3

\* The contract of the interpolators: strictly increasing sample times.
StrictlyIncreasing(xs) == \A i \in 1..(Len(xs) - 1) : FLt(xs[i], xs[i + 1])

\* Sample times: the strictly increasing arrays of n of the times 0..MaxTime.
SampleTimes == {Int2F(t) : t \in 0..MaxTime}
XSamples(n) == {xs \in [1..n -> SampleTimes] : StrictlyIncreasing(xs)}

\* Query times: the half-integers from -1/2 to MaxTime + 1/2.
Queries == {Frac(k, 2) : k \in -1..(2 * MaxTime + 1)}

\* Sample values, also as unwrapped angles (in quarter turns) beyond a turn.
SampleValues == {Int2F(-5), Int2F(1), Int2F(6)}
YSamples(n) == [1..n -> SampleValues]

\* Array-valued samples (interpolate_nearest): 1x2 and 2x2 arrays.
Array1x2(k) == << <<Int2F(k), Int2F(k + 1)>> >>
Array2x2(k) == << <<Int2F(k), Int2F(0)>>, <<Int2F(0), Int2F(-k)>> >>
ArraySamples(n) ==
  {[i \in 1..n |-> Array1x2(10 * i)], [i \in 1..n |-> Array2x2(i)]}

\* The arguments of one call: a query, the sample times, scalar samples and
\* array-valued samples of the same length.
InterpArgs ==
  UNION {[x : Queries, x_sample : XSamples(n), y_sample : YSamples(n),
          m_sample : ArraySamples(n)] : n \in 1..MaxLen}

InitInterp ==
  /\ call \in [fn : {"none"}, args : InterpArgs]
  /\ ret = NaN
  /\ blocks = <<>>

Call_find_enclosing_index ==
  /\ call.fn = "none"
  /\ call' = [call EXCEPT !.fn = "_find_enclosing_index"]
  /\ ret' = _find_enclosing_index(call.args.x, call.args.x_sample)
  /\ UNCHANGED blocks

Call_interpolate ==
  /\ call.fn = "none"
  /\ call' = [call EXCEPT !.fn = "_interpolate"]
  /\ ret' = _interpolate(call.args.x, call.args.x_sample, call.args.y_sample)
  /\ UNCHANGED blocks

Call_interpolate_continuous ==
  /\ call.fn = "none"
  /\ call' = [call EXCEPT !.fn = "interpolate_continuous"]
  /\ ret' = interpolate_continuous(call.args.x, call.args.x_sample,
                                   call.args.y_sample)
  /\ UNCHANGED blocks

Call_interpolate_angles ==
  /\ call.fn = "none"
  /\ call' = [call EXCEPT !.fn = "interpolate_angles"]
  /\ ret' = interpolate_angles(call.args.x, call.args.x_sample,
                               call.args.y_sample)
  /\ UNCHANGED blocks

Call_interpolate_nearest ==
  /\ call.fn = "none"
  /\ call' = [call EXCEPT !.fn = "interpolate_nearest"]
  /\ ret' = interpolate_nearest(call.args.x, call.args.x_sample,
                                call.args.m_sample)
  /\ UNCHANGED blocks

NextInterp ==
  \/ Call_find_enclosing_index
  \/ Call_interpolate
  \/ Call_interpolate_continuous
  \/ Call_interpolate_angles
  \/ Call_interpolate_nearest

SpecInterp == InitInterp /\ [][NextInterp]_vars

---------------------------------------------------------------------------
(* The per-pixel functions applied to bounded inputs *)

MaxLine == 4
MaxPixel == 2
MaxCoord == 1

Identity3 ==
  << <<Int2F(1), Int2F(0), Int2F(0)>>,
     <<Int2F(0), Int2F(1), Int2F(0)>>,
     <<Int2F(0), Int2F(0), Int2F(1)>> >>

\* A misalignment matrix that is not invertible: it maps (1, 0, 0) to 0.
Singular3 ==
  << <<Int2F(0), Int2F(0), Int2F(0)>>,
     <<Int2F(0), Int2F(1), Int2F(0)>>,
     <<Int2F(0), Int2F(0), Int2F(1)>> >>

NaN3 == <<NaN, NaN, NaN>>

\* get_observation_time: zero-based points and scanning parameters, also
\* with a zero spinning rate or no sensor.
ObsTimeArgs ==
  [kind : {"obs_time"},
   point : (0..MaxLine) \X (0..MaxPixel),
   scan_params : [start_time_of_scan : {Int2F(0), Frac(5, 2)},
                  spinning_rate : {Int2F(0), Frac(1, 1440), Int2F(100)},
                  num_sensors : {0, 1, 2},
                  sampling_angle : {Int2F(0), Frac(1, 100), Int2F(4)}]]

\* np.sqrt is exact on a: a is NaN, negative or the square of a rational.
IsSquare(n) == \E r \in {ISqrtFrom(n, 0)} : r * r = n
SqrtExact(a) == IsNaN(a) \/ a[1] < 0 \/ (IsSquare(a[1]) /\ IsSquare(a[2]))

Discriminant(view_vector, sat_pos, ellipsoid) ==
  _discriminant(_ellipsoid_quadratic(view_vector, sat_pos, ellipsoid))

\* The ellipsoid: equatorial radius 5, a sphere or flattened by one half.
Ellipsoids == {<<Int2F(5), Int2F(0)>>, <<Int2F(5), Frac(1, 2)>>}

\* View vectors with components in -MaxCoord..MaxCoord, the zero vector too;
\* satellite positions inside, on and outside the ellipsoid.
ViewVectors ==
  {<<Int2F(x), Int2F(y), Int2F(z)>> : x, y, z \in (-MaxCoord)..MaxCoord}
SatCoords == {Int2F(-7), Int2F(0), Int2F(3), Int2F(4), Int2F(7)}
SatPositions == SatCoords \X SatCoords \X SatCoords

IntersectArgs ==
  {a \in [kind : {"intersect"}, view_vector : ViewVectors,
          sat_pos : SatPositions, ellipsoid : Ellipsoids] :
     SqrtExact(Discriminant(a.view_vector, a.sat_pos, a.ellipsoid))}

\* get_lon_lat: interpolated attitudes and orbits whose angles are whole
\* quarter turns, the satellite on an axis or beside one, and the all-NaN
\* attitude and orbit of an observation time outside the prediction.
LatticeAngles == {Int2F(0), Int2F(1)}

Attitudes ==
  [angle_between_earth_and_sun : LatticeAngles,
   angle_between_sat_spin_and_z_axis : LatticeAngles,
   angle_between_sat_spin_and_yz_plane : LatticeAngles]
  \cup {[angle_between_earth_and_sun |-> NaN,
         angle_between_sat_spin_and_z_axis |-> NaN,
         angle_between_sat_spin_and_yz_plane |-> NaN]}

AxisPositions ==
  {[x |-> Int2F(7), y |-> Int2F(0), z |-> Int2F(0)],
   [x |-> Int2F(-7), y |-> Int2F(0), z |-> Int2F(0)],
   [x |-> Int2F(0), y |-> Int2F(7), z |-> Int2F(0)],
   [x |-> Int2F(0), y |-> Int2F(-7), z |-> Int2F(0)],
   [x |-> Int2F(0), y |-> Int2F(0), z |-> Int2F(7)],
   [x |-> Int2F(0), y |-> Int2F(0), z |-> Int2F(-7)],
   [x |-> Int2F(7), y |-> Int2F(6), z |-> Int2F(0)]}

Orbits ==
  [angles : [greenwich_sidereal_time : LatticeAngles,
             declination_from_sat_to_sun : LatticeAngles,
             right_ascension_from_sat_to_sun : LatticeAngles],
   sat_position : AxisPositions,
   nutation_precession : {Identity3}]
  \cup {[angles |-> [greenwich_sidereal_time |-> NaN,
                     declination_from_sat_to_sun |-> NaN,
                     right_ascension_from_sat_to_sun |-> NaN],
         sat_position |-> [x |-> NaN, y |-> NaN, z |-> NaN],
         nutation_precession |-> nan_ones_like(Identity3)]}

ProjectionParameters ==
  [line_offset : {Int2F(1)},
   pixel_offset : {Int2F(1)},
   stepping_angle : {Int2F(1)},
   sampling_angle : {Int2F(1)},
   misalignment : {Identity3, Singular3},
   earth_flattening : {Int2F(0), Frac(1, 2)},
   earth_equatorial_radius : {Int2F(5)}]

LonLatArgs ==
  [kind : {"lon_lat"},
   point : (0..1) \X (0..1),
   nav_params : Attitudes \X Orbits \X ProjectionParameters]

InitPixel ==
  /\ \/ call \in [fn : {"none"}, args : ObsTimeArgs]
     \/ call \in [fn : {"none"}, args : IntersectArgs]
     \/ call \in [fn : {"none"}, args : LonLatArgs]
  /\ ret = NaN
  /\ blocks = <<>>

Call_get_observation_time ==
  /\ call.fn = "none"
  /\ call.args.kind = "obs_time"
  /\ call' = [call EXCEPT !.fn = "get_observation_time"]
  /\ ret' = get_observation_time(call.args.point, call.args.scan_params)
  /\ UNCHANGED blocks

Call_get_distance_to_intersection ==
  /\ call.fn = "none"
  /\ call.args.kind = "intersect"
  /\ call' = [call EXCEPT !.fn = "_get_distance_to_intersection"]
  /\ ret' = _get_distance_to_intersection(call.args.view_vector,
                                          call.args.sat_pos, call.args.ellipsoid)
  /\ UNCHANGED blocks

Call_intersect_with_earth ==
  /\ call.fn = "none"
  /\ call.args.kind = "intersect"
  /\ call' = [call EXCEPT !.fn = "intersect_with_earth"]
  /\ ret' = intersect_with_earth(call.args.view_vector, call.args.sat_pos,
                                 call.args.ellipsoid)
  /\ UNCHANGED blocks

Call_get_lon_lat ==
  /\ call.fn = "none"
  /\ call.args.kind = "lon_lat"
  /\ call' = [call EXCEPT !.fn = "get_lon_lat"]
  /\ ret' = get_lon_lat(call.args.point, call.args.nav_params)
  /\ UNCHANGED blocks

NextPixel ==
  \/ Call_get_observation_time
  \/ Call_get_distance_to_intersection
  \/ Call_intersect_with_earth
  \/ Call_get_lon_lat

SpecPixel == InitPixel /\ [][NextPixel]_vars

---------------------------------------------------------------------------
(* get_lons_lats on bounded grids: da.map_blocks applies                   *)
(* _get_lons_lats_numba to every chunk of the meshgrid, in any order, and  *)
(* the computed chunks are put together by position.                       *)

NumLines == 2
NumPixels == 2

\* np.arange(n)
Arange(n) == [k \in 1..n |-> k - 1]

RECURSIVE Sum(_)
Sum(c) == IF Len(c) = 0 THEN 0 ELSE c[1] + Sum(Tail(c))

\* The chunk sizes an axis of length n can have
Chunkings(n) ==
  {c \in UNION {[1..k -> 1..n] : k \in 1..n} : Sum(c) = n}

\* Where chunk k of an axis starts, zero-based
ChunkStart(chunks, k) == Sum(SubSeq(chunks, 1, k - 1))

\* The chunk that holds position i (one-based) of an axis
ChunkOf(chunks, i) ==
  CHOOSE k \in 1..Len(chunks) :
    ChunkStart(chunks, k) < i /\ i <= ChunkStart(chunks, k) + chunks[k]

\* Block b = (line chunk, pixel chunk) of a two-dimensional array
Block(a, line_chunks, pixel_chunks, b) ==
  [i \in 1..line_chunks[b[1]] |->
     [j \in 1..pixel_chunks[b[2]] |->
        a[ChunkStart(line_chunks, b[1]) + i][ChunkStart(pixel_chunks, b[2]) + j]]]

\* Observation times are whole numbers: one revolution per time unit, one
\* sensor, a sampling angle of a whole turn.
ScanParameters ==
  [start_time_of_scan : {Int2F(-1), Int2F(0)},
   spinning_rate : {Frac(1, 1440)},
   num_sensors : {1},
   sampling_angle : {Int2F(4)}]

GridProjectionParameters ==
  [line_offset : {Int2F(1)},
   pixel_offset : {Int2F(1)},
   stepping_angle : {Int2F(1)},
   sampling_angle : {Int2F(1)},
   misalignment : {Identity3, Singular3},
   earth_flattening : {Int2F(0)},
   earth_equatorial_radius : {Int2F(5)}]

StaticParameters == ScanParameters \X GridProjectionParameters

\* Predictions at whole times whose samples are whole quarter turns and
\* positions on an axis; the attitude is predicted for longer than the
\* orbit.
Times(n) == [k \in 1..n |-> Int2F(k - 1)]
Still(n) == [k \in 1..n |-> Int2F(0)]

AttitudePredictions ==
  [prediction_times : {Times(5)},
   angle_between_earth_and_sun :
     {<<Int2F(0), Int2F(1), Int2F(1), Int2F(0), Int2F(0)>>},
   angle_between_sat_spin_and_z_axis : {Still(5)},
   angle_between_sat_spin_and_yz_plane : {Still(5)}]

OrbitPredictions ==
  [prediction_times : {Times(4)},
   angles : [greenwich_sidereal_time :
               {<<Int2F(0), Int2F(1), Int2F(1), Int2F(0)>>},
             declination_from_sat_to_sun : {Still(4)},
             right_ascension_from_sat_to_sun :
               {<<Int2F(0), Int2F(0), Int2F(1), Int2F(1)>>}],
   sat_position :
     {[x |-> <<Int2F(7), Int2F(7), Int2F(0), Int2F(0)>>,
       y |-> <<Int2F(0), Int2F(0), Int2F(7), Int2F(7)>>,
       z |-> Still(4)]},
   nutation_precession : {<<Identity3, Identity3, Identity3, Identity3>>}]

PredictedParameters == AttitudePredictions \X OrbitPredictions

GridArgs ==
  [kind : {"grid"},
   lines : {Arange(NumLines)},
   pixels : {Arange(NumPixels)},
   line_chunks : Chunkings(NumLines),
   pixel_chunks : Chunkings(NumPixels),
   static_params : StaticParameters,
   predicted_params : PredictedParameters]

\* pixels_2d, lines_2d = da.meshgrid(pixels, lines)
pixels_2d(a) == Meshgrid(a.pixels, a.lines)[1]
lines_2d(a) == Meshgrid(a.pixels, a.lines)[2]

\* The blocks da.map_blocks applies the function to
BlockIds(a) == (1..Len(a.line_chunks)) \X (1..Len(a.pixel_chunks))

\* One task of da.map_blocks: the function on block b of both arrays
map_blocks_task(a, b) ==
  _get_lons_lats_numba(Block(lines_2d(a), a.line_chunks, a.pixel_chunks, b),
                       Block(pixels_2d(a), a.line_chunks, a.pixel_chunks, b),
                       a.static_params, a.predicted_params)

\* The computed blocks put together by position, chunks = (2,) + chunks
Assembled(a, done, field) ==
  [i \in 1..Len(a.lines) |->
     [j \in 1..Len(a.pixels) |->
        done[<<ChunkOf(a.line_chunks, i), ChunkOf(a.pixel_chunks, j)>>][field]
            [i - ChunkStart(a.line_chunks, ChunkOf(a.line_chunks, i))]
            [j - ChunkStart(a.pixel_chunks, ChunkOf(a.pixel_chunks, j))]]]

Init ==
  /\ call \in [fn : {"none"}, args : GridArgs]
  /\ ret = NaN
  /\ blocks = <<>>

\* A worker computes one block that no worker has computed yet.
ComputeBlock(b) ==
  /\ call.fn = "none"
  /\ call.args.kind = "grid"
  /\ b \in BlockIds(call.args) \ DOMAIN blocks
  /\ blocks' = [c \in DOMAIN blocks \cup {b} |->
                 IF c = b THEN map_blocks_task(call.args, b) ELSE blocks[c]]
  /\ UNCHANGED <<call, ret>>

\* Every block is computed and none raised: lons, lats are complete.
Return_get_lons_lats ==
  /\ call.fn = "none"
  /\ call.args.kind = "grid"
  /\ DOMAIN blocks = BlockIds(call.args)
  /\ \A b \in DOMAIN blocks : ~blocks[b].raised
  /\ call' = [call EXCEPT !.fn = "get_lons_lats"]
  /\ ret' = [raised |-> FALSE,
             lons |-> Assembled(call.args, blocks, "lons"),
             lats |-> Assembled(call.args, blocks, "lats")]
  /\ UNCHANGED blocks

\* A block raised: the exception leaves the computation of lons, lats.
Raise_get_lons_lats ==
  /\ call.fn = "none"
  /\ call.args.kind = "grid"
  /\ \E b \in DOMAIN blocks : blocks[b].raised
  /\ call' = [call EXCEPT !.fn = "get_lons_lats"]
  /\ ret' = RaisedBlock
  /\ UNCHANGED blocks

Next ==
  \/ \E b \in (1..NumLines) \X (1..NumPixels) : ComputeBlock(b)
  \/ Return_get_lons_lats
  \/ Raise_get_lons_lats

Spec == Init /\ [][Next]_vars

---------------------------------------------------------------------------
(* _get_lons_lats_numba on one row of points in which a point may come     *)
(* again: a sequence of navigation calls between which only lons and lats  *)
(* change.                                                                 *)

MaxCalls == 3

\* The points of the calls, in the order of the calls
CallSequences == [1..MaxCalls -> (0..1) \X (0..1)]

CallsArgs ==
  {[kind |-> "calls",
    lines_2d |-> <<[k \in 1..MaxCalls |-> points[k][1]]>>,
    pixels_2d |-> <<[k \in 1..MaxCalls |-> points[k][2]]>>,
    static_params |-> static_params,
    predicted_params |-> predicted_params] :
     points \in CallSequences, static_params \in StaticParameters,
     predicted_params \in PredictedParameters}

InitCalls ==
  /\ call \in [fn : {"none"}, args : CallsArgs]
  /\ ret = NaN
  /\ blocks = <<>>

Call_get_lons_lats_numba ==
  /\ call.fn = "none"
  /\ call.args.kind = "calls"
  /\ call' = [call EXCEPT !.fn = "_get_lons_lats_numba"]
  /\ ret' = _get_lons_lats_numba(call.args.lines_2d, call.args.pixels_2d,
                                 call.args.static_params,
                                 call.args.predicted_params)
  /\ UNCHANGED blocks

NextCalls == Call_get_lons_lats_numba

SpecCalls == InitCalls /\ [][NextCalls]_vars

---------------------------------------------------------------------------
(* Construction of the predictions and of the static parameters *)

\* The correction np.unwrap adds for the step dd between two samples
_ph_correct(dd) ==
  LET ddmod == FSub(FMod(FAdd(dd, Pi), FMul(Int2F(2), Pi)), Pi)
  IN  IF FLt(dd, Pi) /\ FLt(FNeg(Pi), dd) THEN Int2F(0)
      ELSE IF ddmod = FNeg(Pi) /\ FLt(Int2F(0), dd) THEN FSub(Pi, dd)
      ELSE FSub(ddmod, dd)

\* The sum of the corrections of the steps up to sample k (one-based)
RECURSIVE _cumsum_ph_correct(_, _)
_cumsum_ph_correct(p, k) ==
  IF k <= 1 THEN Int2F(0)
  ELSE FAdd(_cumsum_ph_correct(p, k - 1), _ph_correct(FSub(p[k], p[k - 1])))

\* np.unwrap(p)
np_unwrap(p) == [k \in 1..Len(p) |-> FAdd(p[k], _cumsum_ph_correct(p, k))]

\* AttitudePrediction.__init__ and to_numba
AttitudePrediction__init__(prediction_times, angle_between_earth_and_sun, angle_between_sat_spin_and_z_axis, angle_between_sat_spin_and_yz_plane) ==
  [prediction_times |-> prediction_times,
   angle_between_earth_and_sun |-> np_unwrap(angle_between_earth_and_sun),
   angle_between_sat_spin_and_z_axis |->
     np_unwrap(angle_between_sat_spin_and_z_axis),
   angle_between_sat_spin_and_yz_plane |->
     np_unwrap(angle_between_sat_spin_and_yz_plane)]

_unwrap_angles(angles) ==
  [greenwich_sidereal_time |-> np_unwrap(angles.greenwich_sidereal_time),
   declination_from_sat_to_sun |-> np_unwrap(angles.declination_from_sat_to_sun),
   right_ascension_from_sat_to_sun |->
     np_unwrap(angles.right_ascension_from_sat_to_sun)]

\* OrbitPrediction.__init__ and to_numba
OrbitPrediction__init__(prediction_times, angles, sat_position, nutation_precession) ==
  [prediction_times |-> prediction_times,
   angles |-> _unwrap_angles(angles),
   sat_position |-> sat_position,
   nutation_precession |-> nutation_precession]

\* ScanningParameters and ProjectionParameters are namedtuples: the object
\* holds the fields as they are given.
namedtuple__new__(fields) == fields

MaxSamples == 3

\* Arrays of 2..MaxSamples of the given whole values, in any order:
\* prediction times, increasing or not, and angles in quarter turns
SampleArrays(values) ==
  UNION {[1..n -> {Int2F(v) : v \in values}] : n \in 2..MaxSamples}

AttitudeArgs ==
  [kind : {"attitude"},
   prediction_times : SampleArrays({0, 1, 2}),
   angle_between_earth_and_sun : SampleArrays({0, 1, 3}),
   angle_between_sat_spin_and_z_axis : {Still(2), Still(MaxSamples)},
   angle_between_sat_spin_and_yz_plane : {Still(2)}]

OrbitArgs ==
  [kind : {"orbit"},
   prediction_times : SampleArrays({0, 1, 2}),
   angles : [greenwich_sidereal_time : SampleArrays({0, 1, 3}),
             declination_from_sat_to_sun : {Still(2)},
             right_ascension_from_sat_to_sun : {Still(2)}],
   sat_position : {[x |-> <<Int2F(7), Int2F(7)>>, y |-> Still(2),
                    z |-> Still(2)],
                   [x |-> <<Int2F(7)>>, y |-> Still(2), z |-> Still(2)]},
   nutation_precession : {<<Identity3, Identity3>>, <<Identity3>>}]

ScanningArgs ==
  [kind : {"scanning"},
   fields : [start_time_of_scan : {Int2F(0)},
             spinning_rate : {Frac(-1, 1440), Int2F(0), Frac(1, 1440)},
             num_sensors : {0, 1},
             sampling_angle : {Int2F(4)}]]

ProjectionArgs ==
  [kind : {"projection"},
   fields : [line_offset : {Int2F(1)},
             pixel_offset : {Int2F(1)},
             stepping_angle : {Int2F(1)},
             sampling_angle : {Int2F(1)},
             misalignment : {Identity3},
             earth_flattening : {Int2F(0), Frac(1, 2)},
             earth_equatorial_radius : {Int2F(-5), Int2F(0), Int2F(5)}]]

InitConstruct ==
  /\ \/ call \in [fn : {"none"}, args : AttitudeArgs]
     \/ call \in [fn : {"none"}, args : OrbitArgs]
     \/ call \in [fn : {"none"}, args : ScanningArgs]
     \/ call \in [fn : {"none"}, args : ProjectionArgs]
  /\ ret = NaN
  /\ blocks = <<>>

Construct_AttitudePrediction ==
  /\ call.fn = "none"
  /\ call.args.kind = "attitude"
  /\ call' = [call EXCEPT !.fn = "AttitudePrediction"]
  /\ ret' = [raised |-> FALSE,
             object |-> AttitudePrediction__init__(
                          call.args.prediction_times,
                          call.args.angle_between_earth_and_sun,
                          call.args.angle_between_sat_spin_and_z_axis,
                          call.args.angle_between_sat_spin_and_yz_plane)]
  /\ UNCHANGED blocks

Construct_OrbitPrediction ==
  /\ call.fn = "none"
  /\ call.args.kind = "orbit"
  /\ call' = [call EXCEPT !.fn = "OrbitPrediction"]
  /\ ret' = [raised |-> FALSE,
             object |-> OrbitPrediction__init__(
                          call.args.prediction_times, call.args.angles,
                          call.args.sat_position,
                          call.args.nutation_precession)]
  /\ UNCHANGED blocks

Construct_ScanningParameters ==
  /\ call.fn = "none"
  /\ call.args.kind = "scanning"
  /\ call' = [call EXCEPT !.fn = "ScanningParameters"]
  /\ ret' = [raised |-> FALSE, object |-> namedtuple__new__(call.args.fields)]
  /\ UNCHANGED blocks

Construct_ProjectionParameters ==
  /\ call.fn = "none"
  /\ call.args.kind = "projection"
  /\ call' = [call EXCEPT !.fn = "ProjectionParameters"]
  /\ ret' = [raised |-> FALSE, object |-> namedtuple__new__(call.args.fields)]
  /\ UNCHANGED blocks

NextConstruct ==
  \/ Construct_AttitudePrediction
  \/ Construct_OrbitPrediction
  \/ Construct_ScanningParameters
  \/ Construct_ProjectionParameters

SpecConstruct == InitConstruct /\ [][NextConstruct]_vars

---------------------------------------------------------------------------
(* The interpolation on sample times in any order *)

\* The arguments of one call: a query, NaN too, sample times that need not
\* increase (repeated and decreasing times among them) and samples of the
\* same length.
AnySampleArgs ==
  UNION {[x : Queries \cup {NaN},
          x_sample : {xs \in SampleArrays({0, 1, 2}) : Len(xs) = n},
          y_sample : {ys \in SampleArrays({-1, 2}) : Len(ys) = n}] :
         n \in 2..MaxSamples}

InitAnySample ==
  /\ call \in [fn : {"none"}, args : AnySampleArgs]
  /\ ret = NaN
  /\ blocks = <<>>

NextAnySample ==
  \/ Call_find_enclosing_index
  \/ Call_interpolate

SpecAnySample == InitAnySample /\ [][NextAnySample]_vars

---------------------------------------------------------------------------
(* Properties of the interpolators *)

Last(a) == At(a, Len(a) - 1)

\* x_sample[i] <= x < x_sample[i + 1]
Encloses(x_sample, i, x) ==
  FLe(At(x_sample, i), x) /\ FLt(x, At(x_sample, i + 1))

EnclosingIndices(x, x_sample) ==
  {i \in 0..(Len(x_sample) - 2) : Encloses(x_sample, i, x)}

\* x_sample[0] <= x < x_sample[last]
InRange(x, x_sample) == FLe(At(x_sample, 0), x) /\ FLt(x, Last(x_sample))

\* The straight line through samples i and i + 1, evaluated at x.
LineAt(x, x_sample, y_sample, i) ==
  LET x0 == At(x_sample, i)
      x1 == At(x_sample, i + 1)
      y0 == At(y_sample, i)
      y1 == At(y_sample, i + 1)
      num == (y0[1] * y1[2] * (x1[1] * x[2] - x[1] * x1[2]) * x0[2])
             + (y1[1] * y0[2] * (x[1] * x0[2] - x0[1] * x[2]) * x1[2])
      den == y0[2] * y1[2] * x[2] * (x1[1] * x0[2] - x0[1] * x1[2])
  IN  Frac(num, den)

IsInteger(a) == ~IsNaN(a) /\ a # Exc /\ a[2] = 1

\* C1: for strictly increasing x_sample, _find_enclosing_index returns the one
\* index i, 0 <= i < len - 1, with x_sample[i] <= x < x_sample[i + 1] whenever
\* there is one (index 1 for x_sample = [0, 1, 2, 3] and x = 1.5), and raises
\* exactly when there is none.
C1_EnclosingIndex ==
  (call.fn = "_find_enclosing_index" /\ StrictlyIncreasing(call.args.x_sample)) =>
    LET E == EnclosingIndices(call.args.x, call.args.x_sample)
    IN  /\ Cardinality(E) <= 1
        /\ E # {} => ret \in E
        /\ ret = Raised <=> E = {}
        /\ ret # Raised => (0 <= ret /\ ret < Len(call.args.x_sample) - 1)
        /\ (/\ call.args.x_sample = <<Int2F(0), Int2F(1), Int2F(2), Int2F(3)>>
            /\ call.args.x = Frac(3, 2)) => ret = 1

C1_Witness ==
  /\ call.fn = "_find_enclosing_index"
  /\ call.args.x_sample = <<Int2F(0), Int2F(1), Int2F(2), Int2F(3)>>
  /\ call.args.x = Frac(3, 2)
  /\ ret = 1

IsNaNArrayLike(r, a) ==
  /\ DOMAIN r = DOMAIN a
  /\ \A i \in DOMAIN a :
       /\ DOMAIN r[i] = DOMAIN a[i]
       /\ \A j \in DOMAIN a[i] : r[i][j] = NaN

C3_ExactResampling ==
  (call.fn = "interpolate_continuous" /\ StrictlyIncreasing(call.args.x_sample)) =>
    \A i \in 0..(Len(call.args.x_sample) - 2) :
      call.args.x = At(call.args.x_sample, i) => ret = At(call.args.y_sample, i)

C3_Witness ==
  /\ call.fn = "interpolate_continuous"
  /\ Len(call.args.x_sample) >= 3
  /\ call.args.x = At(call.args.x_sample, 1)
  /\ At(call.args.y_sample, 1) # At(call.args.y_sample, 2)
  /\ ret = At(call.args.y_sample, 1)

\* C4: for a query inside the sample times, interpolate_angles returns a value
\* in [-pi, pi] that differs from the linear interpolation of the samples by
\* a whole number of turns; result + pi is the non-negative remainder.
C4_AngleRange ==
  (/\ call.fn = "interpolate_angles"
   /\ StrictlyIncreasing(call.args.x_sample)
   /\ InRange(call.args.x, call.args.x_sample)) =>
    /\ FLe(FNeg(Pi), ret) /\ FLe(ret, Pi)
    /\ \E i \in EnclosingIndices(call.args.x, call.args.x_sample) :
         LET v == LineAt(call.args.x, call.args.x_sample, call.args.y_sample, i)
             turns == FSub(v, ret)
         IN  /\ turns[1] % (4 * turns[2]) = 0
             /\ FLe(Int2F(0), FAdd(ret, Pi))
             /\ FLt(FAdd(ret, Pi), FMul(Int2F(2), Pi))

C4_Witness ==
  /\ call.fn = "interpolate_angles"
  /\ InRange(call.args.x, call.args.x_sample)
  /\ \E i \in EnclosingIndices(call.args.x, call.args.x_sample) :
       LET v == LineAt(call.args.x, call.args.x_sample, call.args.y_sample, i)
       IN  /\ FLt(Pi, v)
           /\ ~IsInteger(v)
           /\ ret = FSub(v, FMul(Int2F(2), Pi))

---------------------------------------------------------------------------
(* Properties of the per-pixel navigation *)

IsNegative(a) == a # Exc /\ ~IsNaN(a) /\ a[1] < 0
IsPositive(a) == a # Exc /\ ~IsNaN(a) /\ a[1] > 0

\* start + (floor(line / num_sensors) + sampling_angle (pixel + 1) / (2 pi))
\*         / (1440 spinning_rate), in integers; 2 pi is four quarter turns.
ExpectedObservationTime(line, pixel, p) ==
  LET line_step == line \div p.num_sensors
      N == (line_step * 4 * p.sampling_angle[2]
            + p.sampling_angle[1] * (pixel + 1)) * p.spinning_rate[2]
      D == 4 * p.sampling_angle[2] * 1440 * p.spinning_rate[1]
  IN  Frac(p.start_time_of_scan[1] * D + N * p.start_time_of_scan[2],
           p.start_time_of_scan[2] * D)

\* C6: with spinning_rate > 0 and num_sensors > 0, get_observation_time
\* returns start_time_of_scan + (floor(line / num_sensors)
\* + sampling_angle (pixel + 1) / (2 pi)) / (1440 spinning_rate); for point
\* (0, 0) the offset is sampling_angle / (2 pi) / (1440 spinning_rate); the
\* lines of one group of num_sensors consecutive lines get the time of the
\* group's first line.
C6_ObservationTime ==
  (/\ call.fn = "get_observation_time"
   /\ IsPositive(call.args.scan_params.spinning_rate)
   /\ call.args.scan_params.num_sensors > 0)
  => LET p == call.args.scan_params
         line == call.args.point[1]
         pixel == call.args.point[2]
     IN  /\ ret = ExpectedObservationTime(line, pixel, p)
         /\ (line = 0 /\ pixel = 0) =>
               ret = FAdd(p.start_time_of_scan,
                          Frac(p.sampling_angle[1] * p.spinning_rate[2],
                               4 * p.sampling_angle[2] * 1440
                                 * p.spinning_rate[1]))
         /\ ret = get_observation_time(
                    <<p.num_sensors * (line \div p.num_sensors), pixel>>, p)

\* C6 witness: line 3 with two sensors (line step 1), pixel 1, one
\* revolution per time unit, sampling angle 1/100: 5/2 + 1 + 1/200.
C6_Witness ==
  /\ call.fn = "get_observation_time"
  /\ call.args.point = <<3, 1>>
  /\ call.args.scan_params =
       [start_time_of_scan |-> Frac(5, 2), spinning_rate |-> Frac(1, 1440),
        num_sensors |-> 2, sampling_angle |-> Frac(1, 100)]
  /\ ret = Frac(701, 200)

\* a t^2 + 2 b t + c
QuadraticAt(q, t) ==
  FAdd(FAdd(FMul(q.a, FMul(t, t)), FMul(Int2F(2), FMul(q.b, t))), q.c)

IsRealPoint(p) ==
  /\ p # Exc
  /\ Len(p) = 3
  /\ \A k \in 1..3 : p[k] # Exc /\ ~IsNaN(p[k])

\* The satellite is outside the ellipsoid: c > 0.
SatelliteOutside(view_vector, sat_pos, ellipsoid) ==
  IsPositive(_ellipsoid_quadratic(view_vector, sat_pos, ellipsoid).c)

\* The half-line sat_pos + t view_vector, t >= 0, of a satellite outside the
\* ellipsoid meets the ellipsoid: the discriminant is not negative and the
\* roots, whose product c / a is positive, have the positive sum -2 b / a.
HalfLineMeetsEarth(view_vector, sat_pos, ellipsoid) ==
  LET q == _ellipsoid_quadratic(view_vector, sat_pos, ellipsoid)
  IN  /\ IsPositive(q.a)
      /\ ~IsNegative(_discriminant(q))
      /\ IsNegative(q.b)

\* C14: for a satellite outside the ellipsoid, intersect_with_earth returns
\* a point that is not NaN only if the half-line sat_pos + t view_vector
\* with t >= 0 meets the ellipsoid, and the distance min(t1, t2) that
\* _get_distance_to_intersection returns is never negative.
C14_NoBackwardIntersection ==
  /\ (/\ call.fn = "intersect_with_earth"
      /\ SatelliteOutside(call.args.view_vector, call.args.sat_pos,
                          call.args.ellipsoid)
      /\ IsRealPoint(ret))
     => HalfLineMeetsEarth(call.args.view_vector, call.args.sat_pos,
                           call.args.ellipsoid)
  /\ (/\ call.fn = "_get_distance_to_intersection"
      /\ SatelliteOutside(call.args.view_vector, call.args.sat_pos,
                          call.args.ellipsoid))
     => ~IsNegative(ret)

\* C14 witness: the satellite at (7, 0, 0) outside a sphere of radius 5
\* looks away from it along (1, 0, 0); the line meets the sphere behind the
\* satellite at t = -2 and t = -12, and the far side (-5, 0, 0) is returned.
C14_Witness ==
  /\ call.fn = "intersect_with_earth"
  /\ call.args.sat_pos = <<Int2F(7), Int2F(0), Int2F(0)>>
  /\ call.args.view_vector = <<Int2F(1), Int2F(0), Int2F(0)>>
  /\ call.args.ellipsoid = <<Int2F(5), Int2F(0)>>
  /\ ret = <<Int2F(-5), Int2F(0), Int2F(0)>>

\* A point is on the ellipsoid: (1 - f)^2 (x^2 + y^2 - R^2) + z^2 = 0.
OnEllipsoid(p, ellipsoid) ==
  LET k == FMul(FSub(Int2F(1), ellipsoid[2]), FSub(Int2F(1), ellipsoid[2]))
      r2 == FMul(ellipsoid[1], ellipsoid[1])
  IN  IsZero(FAdd(FMul(k, FSub(FAdd(FMul(p[1], p[1]), FMul(p[2], p[2])), r2)),
                  FMul(p[3], p[3])))

\* sat_pos + t view_vector
PointAt(view_vector, sat_pos, t) == VAdd(sat_pos, VScale(view_vector, t))

\* C15: when the discriminant is not negative and a > 0, the point that
\* intersect_with_earth returns is on the ellipsoid,
\* (1 - f)^2 (x^2 + y^2 - R^2) + z^2 = 0, and so is the point at each of the
\* two distances of _get_distances_to_intersections.
C15_PointOnEllipsoid ==
  (/\ call.fn = "intersect_with_earth"
   /\ ~IsNegative(Discriminant(call.args.view_vector, call.args.sat_pos,
                               call.args.ellipsoid))
   /\ IsPositive(_ellipsoid_quadratic(call.args.view_vector,
                                      call.args.sat_pos,
                                      call.args.ellipsoid).a))
  => LET d == _get_distances_to_intersections(
                call.args.view_vector, call.args.sat_pos, call.args.ellipsoid)
     IN  /\ IsRealPoint(ret)
         /\ OnEllipsoid(ret, call.args.ellipsoid)
         /\ \A k \in 1..2 :
              OnEllipsoid(PointAt(call.args.view_vector, call.args.sat_pos,
                                  d[k]), call.args.ellipsoid)
         /\ \E k \in 1..2 :
              ret = PointAt(call.args.view_vector, call.args.sat_pos, d[k])

\* C15 witness: from (0, 0, 7) along (0, 0, -1) the ellipsoid of equatorial
\* radius 5 and flattening 1/2 is met at its pole (0, 0, 5/2), at the
\* distance 9/2; the other root 19/2 gives the opposite pole.
C15_Witness ==
  /\ call.fn = "intersect_with_earth"
  /\ call.args.sat_pos = <<Int2F(0), Int2F(0), Int2F(7)>>
  /\ call.args.view_vector = <<Int2F(0), Int2F(0), Int2F(-1)>>
  /\ call.args.ellipsoid = <<Int2F(5), Frac(1, 2)>>
  /\ ret = <<Int2F(0), Int2F(0), Frac(5, 2)>>

\* The view vector in earth-fixed coordinates that get_lon_lat intersects
\* with the earth.
ViewVectorOf(point, nav_params) ==
  transform_satellite_to_earth_fixed_coords(
    transform_scanning_angles_to_satellite_coords(
      transform_image_coords_to_scanning_angles(
        point, _get_image_offset(nav_params[3]), _get_sampling(nav_params[3])),
      nav_params[3].misalignment),
    nav_params[2], nav_params[1].angle_between_earth_and_sun,
    _get_spin_angles(nav_params[1]))

PixelDiscriminant(point, nav_params) ==
  Discriminant(ViewVectorOf(point, nav_params), _get_sat_pos(nav_params[2]),
               _get_ellipsoid(nav_params[3]))

\* C8: when the discriminant b^2 - a c is negative, intersect_with_earth
\* returns a point of three NaN and get_lon_lat returns NaN longitude and
\* NaN latitude; nothing is raised.
C8_NoIntersectionIsNaN ==
  /\ (/\ call.fn = "intersect_with_earth"
      /\ IsNegative(Discriminant(call.args.view_vector, call.args.sat_pos,
                                 call.args.ellipsoid)))
     => ret = NaN3
  /\ (/\ call.fn = "get_lon_lat"
      /\ IsNegative(PixelDiscriminant(call.args.point, call.args.nav_params)))
     => ret = <<NaN, NaN>>

\* C8 witness: get_lon_lat has returned for a pixel whose view line misses
\* the earth (the discriminant is a negative number).
C8_Witness ==
  /\ call.fn = "get_lon_lat"
  /\ IsNegative(PixelDiscriminant(call.args.point, call.args.nav_params))
  /\ ret = <<NaN, NaN>>

---------------------------------------------------------------------------
(* Properties of the grid evaluation *)

\* The whole grid computed as a single chunk
WholeGrid(a) ==
  _get_lons_lats_numba(lines_2d(a), pixels_2d(a), a.static_params,
                       a.predicted_params)

\* The grid of the single point (line, pixel)
SinglePixel(a, line, pixel) ==
  _get_lons_lats_numba(<<<<line>>>>, <<<<pixel>>>>, a.static_params,
                       a.predicted_params)

\* The observation time of a point lies in none of the intervals of the
\* prediction times.
OutsidePrediction(a, line, pixel, prediction_times) ==
  _find_enclosing_index(get_observation_time(<<line, pixel>>,
                                             a.static_params[1]),
                        prediction_times) = Raised

\* The cells (i, j) of block b and the line and the pixel of each
CellsOf(a, b) ==
  (1..a.line_chunks[b[1]]) \X (1..a.pixel_chunks[b[2]])
LineOf(a, b, i) == a.lines[ChunkStart(a.line_chunks, b[1]) + i]
PixelOf(a, b, j) == a.pixels[ChunkStart(a.pixel_chunks, b[2]) + j]

\* C9: no block of a grid raises; every cell of a computed block holds what
\* the grid of its pixel alone holds, whatever the other pixels of the block
\* are; a cell whose observation time is outside the orbit prediction holds
\* NaN in lons and lats.
C9_ErrorIsolation ==
  call.args.kind = "grid" =>
    \A b \in DOMAIN blocks :
      /\ ~blocks[b].raised
      /\ \A c \in CellsOf(call.args, b) :
           /\ ~SinglePixel(call.args, LineOf(call.args, b, c[1]),
                           PixelOf(call.args, b, c[2])).raised
           /\ blocks[b].lons[c[1]][c[2]] =
                SinglePixel(call.args, LineOf(call.args, b, c[1]),
                            PixelOf(call.args, b, c[2])).lons[1][1]
           /\ blocks[b].lats[c[1]][c[2]] =
                SinglePixel(call.args, LineOf(call.args, b, c[1]),
                            PixelOf(call.args, b, c[2])).lats[1][1]
           /\ OutsidePrediction(call.args, LineOf(call.args, b, c[1]),
                                PixelOf(call.args, b, c[2]),
                                call.args.predicted_params[2].prediction_times)
              => /\ IsNaN(blocks[b].lons[c[1]][c[2]])
                 /\ IsNaN(blocks[b].lats[c[1]][c[2]])

\* C9 without the zero divisor: a block that did not raise holds in every
\* cell what the grid of its pixel alone holds, and NaN where the
\* observation time is outside the orbit prediction.
C9_IsolationUnlessRaised ==
  call.args.kind = "grid" =>
    \A b \in DOMAIN blocks :
      ~blocks[b].raised =>
        \A c \in CellsOf(call.args, b) :
          /\ blocks[b].lons[c[1]][c[2]] =
               SinglePixel(call.args, LineOf(call.args, b, c[1]),
                           PixelOf(call.args, b, c[2])).lons[1][1]
          /\ blocks[b].lats[c[1]][c[2]] =
               SinglePixel(call.args, LineOf(call.args, b, c[1]),
                           PixelOf(call.args, b, c[2])).lats[1][1]
          /\ OutsidePrediction(call.args, LineOf(call.args, b, c[1]),
                               PixelOf(call.args, b, c[2]),
                               call.args.predicted_params[2].prediction_times)
             => /\ IsNaN(blocks[b].lons[c[1]][c[2]])
                /\ IsNaN(blocks[b].lats[c[1]][c[2]])

\* C9 witness: a block of two or more pixels raised, with a misalignment
\* matrix that takes the view vector of one pixel to zero.
C9_Witness ==
  /\ call.args.kind = "grid"
  /\ call.args.static_params[2].misalignment = Singular3
  /\ \E b \in DOMAIN blocks :
       /\ blocks[b].raised
       /\ Cardinality(CellsOf(call.args, b)) >= 2

\* The computed blocks and the returned lons, lats against the whole grid
\* computed as a single chunk
AgreesWithWhole(a, whole) ==
  /\ call.fn = "get_lons_lats" => ret = whole
  /\ ~whole.raised =>
       \A b \in DOMAIN blocks :
         blocks[b] =
           [raised |-> FALSE,
            lons |-> Block(whole.lons, a.line_chunks, a.pixel_chunks, b),
            lats |-> Block(whole.lats, a.line_chunks, a.pixel_chunks, b)]

\* C10: when lons, lats are computed, whatever the chunks and the order of
\* their computation, they are what the whole grid computed as a single
\* chunk gives (an exception where that raises); and every computed block
\* holds the part of the single chunk's lons, lats at its position.
C10_ChunkInvariance ==
  call.args.kind = "grid" => AgreesWithWhole(call.args, WholeGrid(call.args))

\* C10 witness: lons, lats put together from one chunk per pixel, with NaN
\* in one cell and a number in another.
C10_Witness ==
  /\ call.fn = "get_lons_lats"
  /\ ~ret.raised
  /\ Len(call.args.line_chunks) = NumLines
  /\ Len(call.args.pixel_chunks) = NumPixels
  /\ \E i \in 1..NumLines, j \in 1..NumPixels : IsNaN(ret.lons[i][j])
  /\ \E i \in 1..NumLines, j \in 1..NumPixels : ~IsNaN(ret.lons[i][j])
  /\ \E i, k \in 1..NumLines, j, l \in 1..NumPixels :
       /\ ~IsNaN(ret.lons[i][j]) /\ ~IsNaN(ret.lons[k][l])
       /\ ret.lons[i][j] # ret.lons[k][l]

\* (lon, lat) as stored in the float32 grids for the point (line, pixel)
NavigationResult(a, line, pixel) ==
  LET lon_lat == _navigate(<<line, pixel>>, a.static_params, a.predicted_params)
  IN  <<Float32(lon_lat[1]), Float32(lon_lat[2])>>

\* C11: the lons and lats that get_lons_lats gives each have len(lines) rows
\* of len(pixels) cells, and cell [i, j] of both holds the navigation result
\* of the point (lines[i], pixels[j]).
C11_GridShape ==
  (call.args.kind = "grid" /\ call.fn = "get_lons_lats" /\ ~ret.raised) =>
    /\ Len(ret.lons) = Len(call.args.lines)
    /\ Len(ret.lats) = Len(call.args.lines)
    /\ \A i \in 1..Len(call.args.lines) :
         /\ Len(ret.lons[i]) = Len(call.args.pixels)
         /\ Len(ret.lats[i]) = Len(call.args.pixels)
         /\ \A j \in 1..Len(call.args.pixels) :
              <<ret.lons[i][j], ret.lats[i][j]>> =
                NavigationResult(call.args, call.args.lines[i],
                                 call.args.pixels[j])

\* C11 witness: computed grids of NumLines rows and NumPixels columns in
\* which the cell of (line 0, pixel 1) holds a longitude and the cell of
\* (line 1, pixel 0) holds NaN, so the axes cannot be exchanged.
C11_Witness ==
  /\ call.args.kind = "grid"
  /\ call.fn = "get_lons_lats"
  /\ ~ret.raised
  /\ Len(ret.lons) = NumLines
  /\ Len(ret.lons[1]) = NumPixels
  /\ ~IsNaN(ret.lons[1][2])
  /\ IsNaN(ret.lons[2][1])

---------------------------------------------------------------------------
(* Properties of a sequence of navigation calls *)

\* The point of call k
PointOfCall(a, k) == <<a.lines_2d[1][k], a.pixels_2d[1][k]>>

\* C12: in a sequence of navigation calls with the same static and
\* predicted parameters, two calls for the same (line, pixel) give the same
\* (lon, lat), wherever they stand in the sequence, and each gives what a
\* call on its own gives.
C12_Idempotence ==
  (call.fn = "_get_lons_lats_numba" /\ ~ret.raised) =>
    \A j \in 1..MaxCalls :
      /\ <<ret.lons[1][j], ret.lats[1][j]>> =
           NavigationResult(call.args, PointOfCall(call.args, j)[1],
                            PointOfCall(call.args, j)[2])
      /\ \A k \in 1..MaxCalls :
           PointOfCall(call.args, j) = PointOfCall(call.args, k) =>
             /\ ret.lons[1][j] = ret.lons[1][k]
             /\ ret.lats[1][j] = ret.lats[1][k]

\* C12 witness: the point (0, 0) navigated first and last with another
\* point between; both calls give the same longitude, a number, and the
\* call between gives another.
C12_Witness ==
  /\ call.fn = "_get_lons_lats_numba"
  /\ ~ret.raised
  /\ PointOfCall(call.args, 1) = <<0, 0>>
  /\ PointOfCall(call.args, 2) = <<0, 1>>
  /\ PointOfCall(call.args, MaxCalls) = <<0, 0>>
  /\ ~IsNaN(ret.lons[1][1])
  /\ ~IsNaN(ret.lons[1][2])
  /\ ret.lons[1][1] = ret.lons[1][MaxCalls]
  /\ ret.lons[1][1] # ret.lons[1][2]

---------------------------------------------------------------------------
(* Properties of the construction *)

\* The samples of a prediction do not all have the length of its times.
MismatchedLengths(prediction_times, samples) ==
  \E k \in DOMAIN samples : Len(samples[k]) # Len(prediction_times)

AttitudeSamples(a) ==
  <<a.angle_between_earth_and_sun, a.angle_between_sat_spin_and_z_axis,
    a.angle_between_sat_spin_and_yz_plane>>

OrbitSamples(a) ==
  <<a.angles.greenwich_sidereal_time, a.angles.declination_from_sat_to_sun,
    a.angles.right_ascension_from_sat_to_sun, a.sat_position.x,
    a.sat_position.y, a.sat_position.z, a.nutation_precession>>

\* The arguments of a construction break the contract of what is built.
Malformed(a) ==
  CASE a.kind = "attitude" ->
         \/ ~StrictlyIncreasing(a.prediction_times)
         \/ MismatchedLengths(a.prediction_times, AttitudeSamples(a))
    [] a.kind = "orbit" ->
         \/ ~StrictlyIncreasing(a.prediction_times)
         \/ MismatchedLengths(a.prediction_times, OrbitSamples(a))
    [] a.kind = "scanning" -> ~IsPositive(a.fields.spinning_rate)
    [] a.kind = "projection" -> ~IsPositive(a.fields.earth_equatorial_radius)
    [] OTHER -> FALSE

\* C13: a construction with prediction times that do not increase, with
\* samples of another length than the prediction times, or with a spinning
\* rate or an equatorial radius that is not positive, is rejected: it raises
\* and gives no object.
C13_MalformedRejected ==
  (call.fn \in {"AttitudePrediction", "OrbitPrediction", "ScanningParameters",
                "ProjectionParameters"}
   /\ Malformed(call.args))
  => ret.raised

\* C13 witness: an AttitudePrediction was constructed from prediction times
\* that go back and from angles that are fewer than the times.
C13_Witness ==
  /\ call.fn = "AttitudePrediction"
  /\ call.args.prediction_times = <<Int2F(1), Int2F(0), Int2F(0)>>
  /\ Len(call.args.angle_between_earth_and_sun) = 2
  /\ ~ret.raised
  /\ ret.object.prediction_times = call.args.prediction_times

---------------------------------------------------------------------------
(* Properties of the interpolation on sample times in any order *)

\* x_sample[i + 1] - x_sample[i]
WidthAt(x_sample, i) == FSub(At(x_sample, i + 1), At(x_sample, i))

\* y is between y_sample[i] and y_sample[i + 1], the two included.
BetweenSamples(y, y_sample, i) ==
  \/ FLe(At(y_sample, i), y) /\ FLe(y, At(y_sample, i + 1))
  \/ FLe(At(y_sample, i + 1), y) /\ FLe(y, At(y_sample, i))

====
